---- MODULE Spec2Model ----
(***************************************************************************)
(* Model of proxy_checker.py: the Config class (load, fetch_proxy,         *)
(* add_proxy, save) and the ProxyChecker run against the daemon's control  *)
(* API (get_proxies, _validate_proxy, get_proxy_delay, exec).              *)
(*                                                                         *)
(* Spec        one construction of ProxyChecker: Config load, then exec,   *)
(*             one step per HTTP request to the control API.               *)
(* ConfigSpec  a Config object driven through its public methods.          *)
(***************************************************************************)
EXTENDS Integers, Sequences, FiniteSets, TLC

VARIABLES
    pathKind,         \* what config_path names on disk: "missing", "dir", "file"
    cfg,              \* Config construction: "none", "loaded", "error"
    loaded,           \* the document as parsed from the file (input, by value)
    data_mode,        \* self.data[<sibling field>]
    data_list,        \* the list object yaml.safe_load created for data["proxies"]
    aliased,          \* TRUE when self.data["proxies"] IS self.healthy_proxies
    hasHealthy,       \* hasattr(self, "healthy_proxies")
    healthy_proxies,  \* self.healthy_proxies (meaningful when hasHealthy)
    files,            \* documents written by save(), in order
    err,              \* the exception raised by the latest step, or NoError
    recorded,         \* names whose add_proxy call succeeded, in order
    lastOp,           \* the latest Config method call and its outcome
    calls,            \* number of Config method calls made after construction
    pc,               \* position of the ProxyChecker run
    daemonType,       \* the daemon's table: proxy name -> "type" tag
    allList,          \* data["proxies"]["GLOBAL"]["all"] as returned
    idx,              \* position in the list being iterated
    leaf,             \* names kept by filter(_validate_proxy, ...)
    lines,            \* lines printed by exec
    requests,         \* requests issued to the control API, in order
    resp,             \* latest delay response body
    ret               \* latest value returned by get_proxy_delay

configVars == <<pathKind, cfg, loaded, data_mode, data_list, aliased, hasHealthy,
                healthy_proxies, files, recorded, lastOp, calls>>
runVars == <<pc, daemonType, allList, idx, leaf, lines, requests, resp, ret>>
vars == <<pathKind, cfg, loaded, data_mode, data_list, aliased, hasHealthy,
          healthy_proxies, files, err, recorded, lastOp, calls,
          pc, daemonType, allList, idx, leaf, lines, requests, resp, ret>>

\* ------------------------------------------------------------------ bounds
MaxAll == 2
MaxProxies == 2
MaxCalls == 4

\* ------------------------------------------------------------------ values
\* A JSON / Python value: an int, a str, or absent (dict.get -> None).
IntV(i) == [t |-> "int", i |-> i, s |-> ""]
StrV(s) == [t |-> "str", i |-> 0, s |-> s]
Absent == [t |-> "absent", i |-> 0, s |-> ""]

NoError == [type |-> "", msg |-> "", stage |-> "", k |-> 0]
Raise(type, msg, stage, k) == [type |-> type, msg |-> msg, stage |-> stage, k |-> k]

SeqsUpTo(S, n) == UNION {[1..k -> S] : k \in 0..n}

\* ------------------------------------------------------------------ inputs
PathKinds == {"missing", "dir", "file"}
ProxyNames == {"A", "B"}
\* Tags the daemon may report for an entry.
TypeTags == {"Direct", "Reject", "select", "url-test", "relay", "fallback",
             "direct", "selector", "Selector", "Shadowsocks"}
DelayValues == {Absent, IntV(0), IntV(320), IntV(499), IntV(500), IntV(899), IntV(900)}
MessageValues == {Absent, StrV("timeout")}
DelayResponses == [delay : DelayValues, message : MessageValues]

Entry(n, srv) == [name |-> n, server |-> srv]
NoProxy == [name |-> "", server |-> 0]
EntryPool == {Entry("A", 1), Entry("A", 2), Entry("B", 1)}
Modes == {"rule", "global"}
ConfigFiles == [proxies : SeqsUpTo(EntryPool, MaxProxies), mode : Modes]
RunConfigFiles == {[proxies |-> <<Entry("A", 1), Entry("B", 1)>>, mode |-> "rule"]}
NoDoc == [proxies |-> <<>>, mode |-> ""]
NoOp == [op |-> "", name |-> "", ok |-> TRUE]

\* ------------------------------------------------------------------ Config
ConfigPathError_NoIsFileCheck(kind) ==
    IF kind = "missing"
    THEN Raise("FileNotFoundError", "not found.", "load", 0)
    ELSE IF kind = "dir"
         THEN Raise("IsADirectoryError", "Is a directory", "load", 0)
         ELSE NoError

\* Config.__init__, lines 12-15: the two path checks.
ConfigPathError(kind) ==
    IF kind = "missing"
    THEN Raise("FileNotFoundError", "not found.", "load", 0)
    ELSE IF kind = "dir"
         THEN Raise("FileNotFoundError", "is not a file.", "load", 0)
         ELSE NoError

\* Config.__init__ as a whole.
ConfigInit(kind, doc) ==
    LET e == ConfigPathError(kind) IN
    /\ err' = e
    /\ IF e = NoError
       THEN /\ cfg' = "loaded"
            /\ loaded' = doc
            /\ data_mode' = doc.mode
            /\ data_list' = doc.proxies
       ELSE /\ cfg' = "error"
            /\ UNCHANGED <<loaded, data_mode, data_list>>
    /\ UNCHANGED <<pathKind, aliased, hasHealthy, healthy_proxies, files,
                   recorded, lastOp, calls>>

\* self.data["proxies"], given the current accumulator.
DataProxies(acc) == IF aliased THEN acc ELSE data_list

Min(S) == CHOOSE x \in S : \A y \in S : x <= y
Max(S) == CHOOSE x \in S : \A y \in S : x >= y

FetchProxy_Last(proxies, name) ==
    LET hits == {i \in 1..Len(proxies) : proxies[i].name = name} IN
    IF hits = {} THEN [ok |-> FALSE, proxy |-> NoProxy]
    ELSE [ok |-> TRUE, proxy |-> proxies[Max(hits)]]

\* Config.fetch_proxy: next(...) over the generator: the first match, or
\* StopIteration (ok = FALSE).
FetchProxy(proxies, name) ==
    LET hits == {i \in 1..Len(proxies) : proxies[i].name = name} IN
    IF hits = {} THEN [ok |-> FALSE, proxy |-> NoProxy]
    ELSE [ok |-> TRUE, proxy |-> proxies[Min(hits)]]

\* A call of Config.fetch_proxy(name).
FetchProxyCall ==
    /\ cfg = "loaded"
    /\ calls < MaxCalls
    /\ \E name \in ProxyNames :
         LET found == FetchProxy(DataProxies(healthy_proxies), name) IN
         /\ err' = IF found.ok THEN NoError
                   ELSE Raise("StopIteration", "", "lookup", 0)
         /\ lastOp' = [op |-> "fetch_proxy", name |-> name, ok |-> found.ok]
    /\ calls' = calls + 1
    /\ UNCHANGED <<pathKind, cfg, loaded, data_mode, data_list, aliased, hasHealthy,
                   healthy_proxies, files, recorded>>
    /\ UNCHANGED runVars

\* A call of Config.add_proxy(name).
AddProxy ==
    /\ cfg = "loaded"
    /\ calls < MaxCalls
    /\ \E name \in ProxyNames :
         LET acc == IF hasHealthy THEN healthy_proxies ELSE <<>>
             found == FetchProxy(DataProxies(acc), name)
         IN
         /\ hasHealthy' = TRUE
         /\ IF found.ok
            THEN /\ healthy_proxies' = Append(acc, found.proxy)
                 /\ recorded' = Append(recorded, name)
                 /\ err' = NoError
            ELSE /\ healthy_proxies' = acc
                 /\ recorded' = recorded
                 /\ err' = Raise("StopIteration", "", "lookup", 0)
         /\ lastOp' = [op |-> "add_proxy", name |-> name, ok |-> found.ok]
    /\ calls' = calls + 1
    /\ UNCHANGED <<pathKind, cfg, loaded, data_mode, data_list, aliased, files>>
    /\ UNCHANGED runVars

Save_Copy ==
    /\ cfg = "loaded"
    /\ calls < MaxCalls
    /\ IF hasHealthy
       THEN /\ data_list' = healthy_proxies
            /\ aliased' = FALSE
            /\ files' = Append(files, [proxies |-> healthy_proxies, mode |-> data_mode])
            /\ err' = NoError
            /\ lastOp' = [op |-> "save", name |-> "", ok |-> TRUE]
       ELSE /\ UNCHANGED <<aliased, files, data_list>>
            /\ err' = Raise("AttributeError", "healthy_proxies", "save", 0)
            /\ lastOp' = [op |-> "save", name |-> "", ok |-> FALSE]
    /\ calls' = calls + 1
    /\ UNCHANGED <<pathKind, cfg, loaded, data_mode, hasHealthy,
                   healthy_proxies, recorded>>
    /\ UNCHANGED runVars

\* A call of Config.save(): reading self.healthy_proxies raises AttributeError
\* when add_proxy never ran; otherwise data["proxies"] becomes that same list
\* and the whole document is dumped to a new file.
Save ==
    /\ cfg = "loaded"
    /\ calls < MaxCalls
    /\ IF hasHealthy
       THEN /\ aliased' = TRUE
            /\ files' = Append(files, [proxies |-> healthy_proxies, mode |-> data_mode])
            /\ err' = NoError
            /\ lastOp' = [op |-> "save", name |-> "", ok |-> TRUE]
       ELSE /\ UNCHANGED <<aliased, files>>
            /\ err' = Raise("AttributeError", "healthy_proxies", "save", 0)
            /\ lastOp' = [op |-> "save", name |-> "", ok |-> FALSE]
    /\ calls' = calls + 1
    /\ UNCHANGED <<pathKind, cfg, loaded, data_mode, data_list, hasHealthy,
                   healthy_proxies, recorded>>
    /\ UNCHANGED runVars

\* Config(config_path) constructed on its own.
ConfigNew ==
    /\ cfg = "none"
    /\ \E doc \in ConfigFiles : ConfigInit(pathKind, doc)
    /\ UNCHANGED runVars

\* ------------------------------------------------------------------ ProxyChecker
GREEN == "GREEN"
YELLOW == "YELLOW"
RED == "RED"

Req(op, name) == [op |-> op, name |-> name]

ExcludedTypes_NoFallback == {"Direct", "Reject", "select", "url-test", "relay"}

\* The tuple of _validate_proxy, line 134.
ExcludedTypes == {"Direct", "Reject", "select", "url-test", "relay", "fallback"}

\* ProxyChecker._validate_proxy, applied to the details the daemon returned.
ValidateProxyResult(details) == details.type \notin ExcludedTypes

\* Python truthiness of a value, as `or` tests it.
Truthy(v) == \/ v.t = "int" /\ v.i # 0
             \/ v.t = "str" /\ v.s # ""

GetProxyDelay_PresentDelay(r) ==
    IF r.delay.t # "absent" THEN [ok |-> TRUE, v |-> r.delay]
    ELSE IF r.message.t # "absent" THEN [ok |-> TRUE, v |-> r.message]
         ELSE [ok |-> FALSE, v |-> Absent]

\* ProxyChecker.get_proxy_delay, line 122: data.get("delay") or data["message"];
\* ok = FALSE is the KeyError of data["message"].
GetProxyDelay(r) ==
    IF Truthy(r.delay) THEN [ok |-> TRUE, v |-> r.delay]
    ELSE IF r.message.t # "absent" THEN [ok |-> TRUE, v |-> r.message]
         ELSE [ok |-> FALSE, v |-> Absent]

Color_Inclusive(delay) ==
    IF delay.t = "int"
    THEN IF delay.i <= 500 THEN GREEN
         ELSE IF delay.i <= 900 THEN YELLOW
              ELSE RED
    ELSE RED

\* exec, lines 78-86: the colour chosen for a delay.
Color(delay) ==
    IF delay.t = "int"
    THEN IF delay.i < 500 THEN GREEN
         ELSE IF delay.i < 900 THEN YELLOW
              ELSE RED
    ELSE RED

\* ProxyChecker.__init__: Config(config_path) first; an exception there ends
\* the construction before exec.
ProxyCheckerNew ==
    /\ pc = "start"
    /\ \E doc \in RunConfigFiles : ConfigInit(pathKind, doc)
    /\ pc' = IF cfg' = "loaded" THEN "list" ELSE "failed"
    /\ UNCHANGED <<daemonType, allList, idx, leaf, lines, requests, resp, ret>>

\* get_proxies, lines 93-94: GET /proxies answered with the GLOBAL group's list.
GetProxiesList ==
    /\ pc = "list"
    /\ \E all \in SeqsUpTo(ProxyNames, MaxAll) :
         /\ allList' = all
         /\ pc' = IF all = <<>> THEN "done" ELSE "validate"
    /\ requests' = Append(requests, Req("proxies", ""))
    /\ idx' = 1
    /\ leaf' = <<>>
    /\ UNCHANGED <<daemonType, lines, resp, ret, err>>
    /\ UNCHANGED configVars

\* One step of list(filter(self._validate_proxy, proxies)): GET /proxies/{name}
\* answered, the name kept or dropped; after the last one exec's loop starts.
ValidateProxy ==
    /\ pc = "validate"
    /\ LET name == allList[idx]
           details == [type |-> daemonType[name]]
           kept == IF ValidateProxyResult(details) THEN Append(leaf, name) ELSE leaf
       IN
       /\ requests' = Append(requests, Req("details", name))
       /\ leaf' = kept
       /\ IF idx < Len(allList)
          THEN /\ idx' = idx + 1
               /\ pc' = "validate"
          ELSE /\ idx' = 1
               /\ pc' = IF kept = <<>> THEN "done" ELSE "loop"
    /\ UNCHANGED <<daemonType, allList, lines, resp, ret, err>>
    /\ UNCHANGED configVars

\* One iteration of exec's loop: the delay request answered, the result
\* coloured and printed; a body with neither usable field raises KeyError.
CheckDelay ==
    /\ pc = "loop"
    /\ \E r \in DelayResponses :
         LET name == leaf[idx]
             res == GetProxyDelay(r)
         IN
         /\ requests' = Append(requests, Req("delay", name))
         /\ resp' = r
         /\ ret' = res.v
         /\ IF res.ok
            THEN /\ lines' = Append(lines, [name |-> name, value |-> res.v,
                                            color |-> Color(res.v)])
                 /\ err' = err
                 /\ IF idx < Len(leaf)
                    THEN /\ idx' = idx + 1
                         /\ pc' = "loop"
                    ELSE /\ idx' = idx
                         /\ pc' = "done"
            ELSE /\ lines' = lines
                 /\ err' = Raise("KeyError", "message", "delay", idx)
                 /\ idx' = idx
                 /\ pc' = "failed"
    /\ UNCHANGED <<daemonType, allList, leaf>>
    /\ UNCHANGED configVars

\* The request the run is about to issue.
PendingRequest ==
    IF pc = "list" THEN Req("proxies", "")
    ELSE IF pc = "validate" THEN Req("details", allList[idx])
         ELSE Req("delay", leaf[idx])

Stage == IF pc = "list" THEN "list" ELSE IF pc = "validate" THEN "validate" ELSE "delay"

RequestFails_Skip ==
    /\ pc \in {"list", "validate", "loop"}
    /\ requests' = Append(requests, PendingRequest)
    /\ IF pc = "loop"
       THEN /\ err' = err
            /\ IF idx < Len(leaf)
               THEN /\ idx' = idx + 1
                    /\ pc' = "loop"
               ELSE /\ idx' = idx
                    /\ pc' = "done"
       ELSE /\ err' = Raise("RequestException", "", Stage, idx)
            /\ pc' = "failed"
            /\ idx' = idx
    /\ UNCHANGED <<daemonType, allList, leaf, lines, resp, ret>>
    /\ UNCHANGED configVars

\* requests.get(...).json() raising (transport failure, malformed body): no
\* handler anywhere, so the exception leaves exec and __init__.
RequestFails ==
    /\ pc \in {"list", "validate", "loop"}
    /\ requests' = Append(requests, PendingRequest)
    /\ err' = Raise("RequestException", "", Stage, idx)
    /\ pc' = "failed"
    /\ UNCHANGED <<daemonType, allList, idx, leaf, lines, resp, ret>>
    /\ UNCHANGED configVars

\* ------------------------------------------------------------------ specifications
ConfigStart ==
    /\ pathKind \in PathKinds
    /\ cfg = "none"
    /\ loaded = NoDoc
    /\ data_mode = ""
    /\ data_list = <<>>
    /\ aliased = FALSE
    /\ hasHealthy = FALSE
    /\ healthy_proxies = <<>>
    /\ files = <<>>
    /\ err = NoError
    /\ recorded = <<>>
    /\ lastOp = NoOp
    /\ calls = 0

RunStart ==
    /\ pc = "start"
    /\ allList = <<>>
    /\ idx = 0
    /\ leaf = <<>>
    /\ lines = <<>>
    /\ requests = <<>>
    /\ resp = [delay |-> Absent, message |-> Absent]
    /\ ret = Absent

Init ==
    /\ ConfigStart
    /\ RunStart
    /\ daemonType \in [ProxyNames -> TypeTags]

Next ==
    \/ ProxyCheckerNew
    \/ GetProxiesList
    \/ ValidateProxy
    \/ CheckDelay
    \/ RequestFails

Spec == Init /\ [][Next]_vars

ConfigSpecInit ==
    /\ ConfigStart
    /\ RunStart
    /\ daemonType = [n \in ProxyNames |-> "Shadowsocks"]

ConfigNext ==
    \/ ConfigNew
    \/ FetchProxyCall
    \/ AddProxy
    \/ Save

ConfigSpec == ConfigSpecInit /\ [][ConfigNext]_vars

\* ------------------------------------------------------------------ properties
\* get_proxies has returned its list to exec.
GetProxiesReturned ==
    \/ pc \in {"loop", "done"}
    \/ pc = "failed" /\ err.stage = "delay"

\* The latest step was a delay request that the daemon answered.
DelayAnswered ==
    /\ requests # <<>>
    /\ requests[Len(requests)].op = "delay"
    /\ err.type # "RequestException"

\* C1 (as stated): get_proxies returns exactly the entries of the GLOBAL list,
\* in order, whose tag as returned by the daemon is not one of direct, reject,
\* selector, url-test, relay, fallback (the tags read here up to the case of
\* their first letter, the reading most favourable to the statement).
C1_OriginalExcludedSet ==
    LET NotExcluded(n) ==
            daemonType[n] \notin {"direct", "Direct", "reject", "Reject",
                                  "selector", "Selector", "url-test",
                                  "relay", "fallback"}
    IN GetProxiesReturned => leaf = SelectSeq(allList, NotExcluded)

\* C1 (amended): get_proxies returns exactly the entries of the GLOBAL list, in
\* order, whose tag as returned by the daemon is not one of the case-sensitive
\* literals Direct, Reject, select, url-test, relay, fallback.
C1_LeafSubsequence ==
    LET NotExcluded(n) ==
            daemonType[n] \notin {"Direct", "Reject", "select", "url-test",
                                  "relay", "fallback"}
    IN GetProxiesReturned => leaf = SelectSeq(allList, NotExcluded)

C1_Witness ==
    /\ pc = "loop"
    /\ Len(allList) = 2
    /\ daemonType[allList[1]] = "fallback"
    /\ leaf = <<allList[2]>>

\* C2: every printed line carries the proxy's name and the value
\* get_proxy_delay returned, coloured green for an integer below 500, yellow
\* for an integer from 500 to 899, and red for an integer of 900 or more or
\* for any non-integer value.
C2_SeverityBands ==
    /\ \A i \in 1..Len(lines) :
         LET v == lines[i].value
             c == lines[i].color
         IN
         /\ lines[i].name = leaf[i]
         /\ (v.t = "int" /\ v.i < 500) => c = "GREEN"
         /\ (v.t = "int" /\ v.i >= 500 /\ v.i <= 899) => c = "YELLOW"
         /\ (v.t = "int" /\ v.i >= 900) => c = "RED"
         /\ v.t # "int" => c = "RED"
         /\ c \in {"GREEN", "YELLOW", "RED"}
    /\ (DelayAnswered /\ pc # "failed") => lines[Len(lines)].value = ret

C2_Witness ==
    /\ pc = "done"
    /\ Len(lines) = 2
    /\ lines[1].value = IntV(500)
    /\ lines[1].color = "YELLOW"
    /\ lines[2].value = StrV("timeout")
    /\ lines[2].color = "RED"

\* C3: get_proxy_delay returns the delay field when it is present and
\* non-zero, otherwise the message field, and raises (no value, no line) when
\* the delay is 0 or absent and there is no message field.
C3_DelayOrMessage ==
    DelayAnswered =>
        IF resp.delay.t = "int" /\ resp.delay.i # 0
        THEN pc # "failed" /\ ret = resp.delay
        ELSE IF resp.message.t # "absent"
             THEN pc # "failed" /\ ret = resp.message
             ELSE /\ pc = "failed"
                  /\ err.type = "KeyError"
                  /\ Len(lines) = err.k - 1

C3_Witness ==
    /\ DelayAnswered
    /\ resp.delay = IntV(0)
    /\ resp.message = StrV("timeout")
    /\ ret = StrV("timeout")

\* C4 (as stated): a missing path fails with the not-found error and a path
\* that is not a regular file fails with a different kind of error, both
\* before any request is issued.
C4_OriginalDistinctKinds ==
    (pc # "start" /\ pathKind \in {"missing", "dir"}) =>
        /\ pc = "failed"
        /\ requests = <<>>
        /\ pathKind = "missing" => err.type = "FileNotFoundError"
        /\ pathKind = "dir" => err.type # "FileNotFoundError"

\* C4 (amended): a missing path and a path that is not a regular file both
\* fail with FileNotFoundError, told apart only by the message ("not found."
\* and "is not a file."), and in both cases no request is ever issued.
C4_LoadFailsBeforeRequests ==
    /\ (pc # "start" /\ pathKind \in {"missing", "dir"}) =>
          /\ pc = "failed"
          /\ cfg = "error"
          /\ requests = <<>>
          /\ err.type = "FileNotFoundError"
          /\ err.msg = IF pathKind = "missing" THEN "not found." ELSE "is not a file."
    /\ cfg = "error" => requests = <<>>

C4_Witness ==
    /\ pathKind = "dir"
    /\ pc = "failed"
    /\ err.msg = "is not a file."

\* The names, in order, of the printed lines that carry an integer delay.
RECURSIVE NumericNames(_)
NumericNames(ls) ==
    IF ls = <<>> THEN <<>>
    ELSE IF ls[1].value.t = "int"
         THEN <<ls[1].name>> \o NumericNames(Tail(ls))
         ELSE NumericNames(Tail(ls))

\* C8: when a run in which some check returned a numeric delay ends, the
\* save list holds the entries of exactly the proxies whose check returned a
\* numeric delay, in the order checked, and has been written to one new file.
C8_SaveListFlushed ==
    (pc = "done" /\ NumericNames(lines) # <<>>) =>
        /\ hasHealthy
        /\ [i \in 1..Len(healthy_proxies) |-> healthy_proxies[i].name]
             = NumericNames(lines)
        /\ Len(files) = 1
        /\ files[1].proxies = healthy_proxies

\* The request the sequential run issues in position j.
ExpectedRequest(j) ==
    IF j = 1 THEN Req("proxies", "")
    ELSE IF j <= 1 + Len(allList) THEN Req("details", allList[j - 1])
         ELSE Req("delay", leaf[j - 1 - Len(allList)])

C9_Prefix ==
    /\ \A j \in 1..Len(requests) : requests[j] = ExpectedRequest(j)
    /\ \A i \in 1..Len(lines) : lines[i].name = leaf[i]
    /\ pc = "loop" => Len(lines) = idx - 1 /\ Len(requests) = Len(allList) + idx
    /\ pc = "done" => Len(lines) = Len(leaf)
    /\ (pc = "failed" /\ err.stage \in {"load", "list", "validate"}) => lines = <<>>
    /\ (pc = "failed" /\ err.stage = "delay") =>
          /\ Len(lines) = err.k - 1
          /\ Len(requests) = 1 + Len(allList) + err.k

\* C9: the run is sequential with no retry or skip: requests go out in list
\* order, a failure while listing or validating leaves no line, a failure on
\* the delay check of the k-th leaf proxy leaves exactly the lines of the
\* first k-1 leaf proxies, and after a failure no request is issued and no
\* line is printed.
C9_FailureAbortsBatch ==
    /\ []C9_Prefix
    /\ [][pc = "failed" => (requests' = requests /\ lines' = lines)]_vars

C9_Witness ==
    /\ pc = "failed"
    /\ err.type = "RequestException"
    /\ err.stage = "delay"
    /\ err.k = 2
    /\ Len(lines) = 1

\* The first entry of the loaded document named n is e.
FirstNamed(e, n) ==
    \E j \in 1..Len(loaded.proxies) :
        /\ loaded.proxies[j] = e
        /\ e.name = n
        /\ \A h \in 1..(j - 1) : loaded.proxies[h].name # n

\* C5: the document a successful save() writes has, as its proxies list, the
\* looked-up entries of the successful add_proxy calls in the order made,
\* duplicates kept, and its other top-level field as loaded.
C5_SavedDocument ==
    (lastOp.op = "save" /\ lastOp.ok) =>
        LET f == files[Len(files)] IN
        /\ f.mode = loaded.mode
        /\ Len(f.proxies) = Len(recorded)
        /\ \A i \in 1..Len(recorded) : FirstNamed(f.proxies[i], recorded[i])

C5_Witness ==
    /\ lastOp.op = "save"
    /\ lastOp.ok
    /\ Len(files) = 1
    /\ loaded.proxies = <<Entry("A", 1), Entry("A", 2)>>
    /\ recorded = <<"A", "A">>
    /\ files[1].proxies = <<Entry("A", 1), Entry("A", 1)>>

\* C6: a lookup (fetch_proxy, or add_proxy's lookup) of a name no entry has
\* fails with an explicit LookupMiss error, and such an add_proxy leaves the
\* accumulator as it was.
C6_LookupMissExplicit ==
    [][(calls' = calls + 1 /\ lastOp'.op \in {"fetch_proxy", "add_proxy"}
          /\ ~lastOp'.ok) =>
        /\ err'.type = "LookupMiss"
        /\ hasHealthy' = hasHealthy
        /\ healthy_proxies' = healthy_proxies]_vars

\* C7: save() called right after load, with no add_proxy call in between,
\* completes without error and writes the loaded document with an empty
\* proxies list.
C7_SaveDefaultsToEmpty ==
    (calls = 1 /\ lastOp.op = "save") =>
        /\ lastOp.ok
        /\ err = NoError
        /\ files = <<[proxies |-> <<>>, mode |-> loaded.mode]>>

\* C10: once a save() has succeeded the document's entries collection is the
\* accumulator itself: a later lookup succeeds exactly for the names recorded
\* before the first save and otherwise raises StopIteration, and a later
\* add_proxy of a recorded name grows the document's entries collection too.
C10_SaveAliasesAccumulator ==
    Len(files) >= 1 =>
        /\ hasHealthy
        /\ DataProxies(healthy_proxies) = healthy_proxies
        /\ lastOp.op \in {"fetch_proxy", "add_proxy"} =>
              /\ lastOp.ok <=> \E i \in 1..Len(files[1].proxies) :
                                   files[1].proxies[i].name = lastOp.name
              /\ ~lastOp.ok => err.type = "StopIteration"
        /\ (lastOp.op = "add_proxy" /\ lastOp.ok) =>
              Len(DataProxies(healthy_proxies)) > Len(files[Len(files)].proxies)

C10_Witness ==
    /\ Len(files) = 1
    /\ files[1].proxies = <<Entry("A", 1)>>
    /\ loaded.proxies = <<Entry("A", 1), Entry("B", 1)>>
    /\ lastOp = [op |-> "add_proxy", name |-> "B", ok |-> FALSE]
    /\ healthy_proxies = <<Entry("A", 1), Entry("A", 1)>>

====
